---- MODULE Spec2Model ----
(***************************************************************************)
(* sheet_to_triples.__main__ : argument resolution (parse_args) and run    *)
(* orchestration (run_runner, main) as a state machine.                    *)
(*                                                                         *)
(* One behaviour is one invocation of main(argv).  pc is the position in   *)
(* main; argv is the command line; args is the argparse namespace;         *)
(* events is the log of calls made on the Runner; outcome is how the       *)
(* process ended (parser.error -> SystemExit, an uncaught exception, or a  *)
(* normal return).                                                         *)
(*                                                                         *)
(* Python values: a path is a tuple of components, None (for a path) is    *)
(* the empty tuple; a generator is the record [yields, raises, calls] of   *)
(* what it yields before it stops, the exception that stops it (NoExc when *)
(* it is exhausted normally) and the expansions it started.                *)
(*                                                                         *)
(* --debug and --no-resolve-same are stored by argparse and only handed to *)
(* debug.context and Runner.from_args; they change no branch of parse_args *)
(* or run_runner and are left out of argv.                                 *)
(***************************************************************************)
EXTENDS Integers, Sequences, FiniteSets, TLC

VARIABLES argv, args, pc, i, chain, expanded, opened, runner, events, outcome

vars == <<argv, args, pc, i, chain, expanded, opened, runner, events, outcome>>

\* ------------------------------------------------------------------ bounds

\* Most positional transform names on a command line.
MaxPos == 3

\* ------------------------------------------------------------ Python values

None == <<>>
NoExc == "NoExc"
NoneStr == "None"

Gen(ys, exc, cs) == [yields |-> ys, raises |-> exc, calls |-> cs]

\* ------------------------------------------------------- the file system

\* st_mode classes of the paths a --book value may name.
Stat(path) ==
    CASE path = <<"books">> -> "dir"
      [] path = <<"docs">> -> "dir"
      [] path = <<"plan.ods">> -> "reg"
      [] path = <<"fifo">> -> "other"
      [] OTHER -> "ENOENT"

BookArgPaths == {<<"books">>, <<"docs">>, <<"plan.ods">>, <<"fifo">>, <<"nope">>}

\* os.walk(path), top down: each entry is <<root, files>>.
Walk(path) ==
    CASE path = <<"books">> ->
           << <<path, << <<"b", ".", "x", "l", "s", "x">>,
                          <<"n", ".", "t", "x", "t">>,
                          <<"c", ".", "x", "l", "s">> >> >>,
              <<path \o <<"sub">>, << <<"d", ".", "x", "l", "s">> >> >> >>
      [] path = <<"docs">> ->
           << <<path, << <<"r", ".", "m", "d">>,
                          <<"o", ".", "X", "L", "S">> >> >> >>
      [] OTHER -> <<>>

\* The list files --from-list and --non-unique-from may name.
ListPaths == {<<"lst", "ok.txt">>, <<"lst", "bad.txt">>,
              <<"lst", "empty.txt">>, <<"lst", "nope.txt">>}

\* open(path).read().splitlines(): the lines, or the OSError of open().
ReadLines(path) ==
    CASE path = <<"lst", "ok.txt">> -> [raises |-> NoExc, lines |-> <<"t", "a">>]
      [] path = <<"lst", "bad.txt">> -> [raises |-> NoExc, lines |-> <<"a", "bad", "s">>]
      [] path = <<"lst", "empty.txt">> -> [raises |-> NoExc, lines |-> <<>>]
      [] OTHER -> [raises |-> "OSError", lines |-> <<>>]

\* os.path.dirname
Dirname(path) == IF Len(path) = 0 THEN <<>> ELSE SubSeq(path, 1, Len(path) - 1)

\* ---------------------------------------------------------------- transforms

PosNames == {"a", "s", "bad"}

Transform(n, sheet, base) == [name |-> n, uses_sheet |-> sheet, base_path |-> base]

\* trans.Transform.iter_from_name(name, base_path): a lazy sequence of
\* Transforms that may stop with an I/O or value error.
IterFromName(name, base) ==
    CASE name = "a" -> Gen(<<Transform("a", FALSE, base)>>, NoExc, <<name>>)
      [] name = "s" -> Gen(<<Transform("s", TRUE, base), Transform("u", FALSE, base)>>,
                           NoExc, <<name>>)
      [] name = "t" -> Gen(<<Transform("t", TRUE, base)>>, NoExc, <<name>>)
      [] name = "bad" -> Gen(<<Transform("b0", FALSE, base)>>, "ValueError", <<name>>)
      [] OTHER -> Gen(<<>>, "OSError", <<name>>)

\* ------------------------------------------------------------ BookLocator

EndsWith(s, suffix) ==
    /\ Len(s) >= Len(suffix)
    /\ SubSeq(s, Len(s) - Len(suffix) + 1, Len(s)) = suffix

\* _is_book_path: path.endswith(('.xls', '.xlsx'))
IsBookPath(path) ==
    \/ EndsWith(path, <<".", "x", "l", "s">>)
    \/ EndsWith(path, <<".", "x", "l", "s", "x">>)

\* os.path.join(root, filepath) for each filepath
RECURSIVE JoinAll(_, _)
JoinAll(root, files) ==
    IF files = <<>> THEN <<>>
    ELSE <<Append(root, Head(files))>> \o JoinAll(root, Tail(files))

\* _parse_book_path: the generator argparse gets from type=_parse_book_path.
\* os.stat raises for a missing path; a directory yields the book files of
\* the first os.walk entry only (the return inside the loop); a regular file
\* yields itself; any other file type falls off the end of the if/elif.
ParseBookPath(path) ==
    LET st == Stat(path) IN
    IF st = "ENOENT" THEN Gen(<<>>, "OSError", <<>>)
    ELSE IF st = "dir" THEN
        IF Walk(path) = <<>> THEN Gen(<<>>, NoExc, <<>>)
        ELSE LET first == Walk(path)[1] IN
             Gen(JoinAll(first[1], SelectSeq(first[2], IsBookPath)), NoExc, <<>>)
    ELSE IF st = "reg" THEN Gen(<<path>>, NoExc, <<>>)
    ELSE Gen(<<>>, NoExc, <<>>)

\* argparse, action='extend': for each --book value in order the value is
\* converted by the type function (which only creates the generator) and
\* the action calls items.extend(generator); an exception of the generator
\* is raised there, outside argparse's conversion try block.
RECURSIVE ExtendBooks(_)
ExtendBooks(paths) ==
    IF paths = <<>> THEN Gen(<<>>, NoExc, <<>>)
    ELSE LET h == ParseBookPath(Head(paths)) IN
         IF h.raises # NoExc THEN h
         ELSE LET r == ExtendBooks(Tail(paths)) IN
              Gen(h.yields \o r.yields, r.raises, <<>>)

\* ------------------------------------------------- TransformNameExpander

\* for name in transform_names: yield from iter_from_name(name, base_path)
RECURSIVE YieldFromAll(_, _)
YieldFromAll(names, base) ==
    IF names = <<>> THEN Gen(<<>>, NoExc, <<>>)
    ELSE LET h == IterFromName(Head(names), base) IN
         IF h.raises # NoExc THEN h
         ELSE LET r == YieldFromAll(Tail(names), base) IN
              Gen(h.yields \o r.yields, r.raises, h.calls \o r.calls)

\* _transform_list(path)
TransformList(path) ==
    IF path = None THEN Gen(<<>>, NoExc, <<>>)
    ELSE LET rd == ReadLines(path) IN
         IF rd.raises # NoExc THEN Gen(<<>>, rd.raises, <<>>)
         ELSE YieldFromAll(rd.lines, Dirname(path))

\* except (EnvironmentError, ValueError)
Caught == {"OSError", "ValueError"}

\* list_from_parser_iter with the failing entry skipped instead of reported.
ListFromParserIter_SkipsFailure(iterator, argument) ==
    [kind |-> "return",
     value |-> IF iterator.raises = NoExc THEN iterator.yields ELSE <<>>,
     argument |-> argument, error |-> NoExc]

\* list_from_parser_iter(parser, iterator, argument): list(iterator), or
\* parser.error (SystemExit) naming the argument, or the exception itself
\* when it is of another type.
ListFromParserIter(iterator, argument) ==
    IF iterator.raises = NoExc
    THEN [kind |-> "return", value |-> iterator.yields,
          argument |-> argument, error |-> NoExc]
    ELSE IF iterator.raises \in Caught
    THEN [kind |-> "parser.error", value |-> <<>>,
          argument |-> argument, error |-> iterator.raises]
    ELSE [kind |-> "exception", value |-> <<>>,
          argument |-> argument, error |-> iterator.raises]

\* ------------------------------------------------------------- PURGE_MAP

PurgeNames == {"none", "geo", "issues"}

\* type=PURGE_MAP.get: the rule, or None for a name that is not a key.
PurgeMapGet(name) == IF name \in PurgeNames THEN name ELSE NoneStr

\* -------------------------------------------------------------- the run

\* Python truth of an optional list: None and [] are both false.
Truthy(opt) == ~opt.none /\ opt.list # <<>>

\* run.default_model
DefaultModel == <<"default_model.json">>

BookArgs ==
    {[none |-> TRUE, list |-> <<>>]}
    \cup {[none |-> FALSE, list |-> <<p>>] : p \in BookArgPaths}
    \cup {[none |-> FALSE, list |-> <<<<"plan.ods">>, <<"docs">>>>],
          [none |-> FALSE, list |-> <<<<"books">>, <<"nope">>>>]}

\* --add-graph, action='append': None or the values in order.  The second
\* file does not parse as turtle.
GraphArgs == {<<>>, <<"g.ttl">>, <<"g.ttl", "broken.ttl">>}

GraphParses(path) == path # "broken.ttl"

PosArgs == UNION {[1..n -> PosNames] : n \in 0..MaxPos}

Running == [kind |-> "running", argument |-> "", error |-> NoExc, names |-> {}]

Ended(kind, argument, error, names) ==
    [kind |-> kind, argument |-> argument, error |-> error, names |-> names]

Init ==
    /\ argv \in [book : BookArgs,
                 transform : PosArgs,
                 from_list : {None} \cup ListPaths,
                 non_unique_from : {None} \cup (ListPaths \ {<<"lst", "bad.txt">>}),
                 purge_except : {"none", "bogus"},
                 model : {None, <<"model.json">>},
                 model_out : {None, <<"out.json">>},
                 add_graph : GraphArgs,
                 verbose : BOOLEAN]
    /\ args = [book |-> [none |-> TRUE, list |-> <<>>], transform |-> <<>>,
               non_unique_from |-> <<>>, purge_except |-> NoneStr,
               model |-> None, model_out |-> None, add_graph |-> <<>>,
               verbose |-> FALSE, from_list |-> None, nu_from |-> None]
    /\ pc = "argparse"
    /\ i = 1
    /\ chain = <<>>
    /\ expanded = <<>>
    /\ opened = <<>>
    /\ runner = [verbose |-> FALSE, graph |-> <<>>, non_uniques |-> <<>>]
    /\ events = <<>>
    /\ outcome = Running

\* parser.error(message): prints and raises SystemExit(2).
ParserError(argument, error, names) ==
    /\ outcome' = Ended("parser.error", argument, error, names)
    /\ pc' = "exit"

\* An exception nothing in main catches.
Raise(argument, error) ==
    /\ outcome' = Ended("exception", argument, error, {})
    /\ pc' = "raised"

\* parser.parse_args(argv[1:]), line 97: every option is stored; --book is
\* extended from its generators, --purge-except goes through PURGE_MAP.get.
ArgparseParse ==
    /\ pc = "argparse"
    /\ LET b == IF argv.book.none THEN Gen(<<>>, NoExc, <<>>)
                ELSE ExtendBooks(argv.book.list) IN
       IF b.raises # NoExc
       THEN /\ Raise("--book", b.raises)
            /\ UNCHANGED args
       ELSE /\ args' = [book |-> [none |-> argv.book.none, list |-> b.yields],
                        transform |-> argv.transform,
                        non_unique_from |-> <<>>,
                        purge_except |-> PurgeMapGet(argv.purge_except),
                        model |-> argv.model, model_out |-> argv.model_out,
                        add_graph |-> argv.add_graph, verbose |-> argv.verbose,
                        from_list |-> argv.from_list,
                        nu_from |-> argv.non_unique_from]
            /\ pc' = "positional"
            /\ UNCHANGED outcome
    /\ UNCHANGED <<argv, i, chain, expanded, opened, runner, events>>

\* One turn of the generator expression of lines 100-104: the next
\* positional name is expanded through list_from_parser_iter and chained.
ExpandPositional ==
    /\ pc = "positional"
    /\ i <= Len(args.transform)
    /\ LET name == args.transform[i]
           it == IterFromName(name, None)
           r == ListFromParserIter(it, name) IN
       /\ expanded' = expanded \o it.calls
       /\ IF r.kind = "return"
          THEN /\ chain' = chain \o r.value
               /\ i' = i + 1
               /\ UNCHANGED <<pc, outcome>>
          ELSE /\ IF r.kind = "parser.error"
                  THEN ParserError(r.argument, r.error, {})
                  ELSE Raise(r.argument, r.error)
               /\ UNCHANGED <<chain, i>>
    /\ UNCHANGED <<argv, args, opened, runner, events>>

\* The chain is exhausted: args.transform = list(...), line 100.
AssignTransform ==
    /\ pc = "positional"
    /\ i > Len(args.transform)
    /\ args' = [args EXCEPT !.transform = chain]
    /\ pc' = "from_list"
    /\ UNCHANGED <<argv, i, chain, expanded, opened, runner, events, outcome>>

\* The list inserted at the end instead of the front.
InsertAtFront_Appends(lst, xs) == lst \o xs

\* args.transform[:0] = xs
InsertAtFront(lst, xs) == xs \o lst

\* The list files a call of _transform_list(path) opens.
Opens(path) == IF path = None THEN <<>> ELSE <<path>>

\* Lines 105-106.
FromList ==
    /\ pc = "from_list"
    /\ LET it == TransformList(args.from_list)
           r == ListFromParserIter(it, "--from-list") IN
       /\ expanded' = expanded \o it.calls
       /\ opened' = opened \o Opens(args.from_list)
       /\ IF r.kind = "return"
          THEN /\ args' = [args EXCEPT !.transform = InsertAtFront(@, r.value)]
               /\ pc' = "non_unique_from"
               /\ UNCHANGED outcome
          ELSE /\ IF r.kind = "parser.error"
                  THEN ParserError(r.argument, r.error, {})
                  ELSE Raise(r.argument, r.error)
               /\ UNCHANGED args
    /\ UNCHANGED <<argv, i, chain, runner, events>>

\* Lines 107-108 with the result also put into the execution list.
NonUniqueFrom_Merged ==
    /\ pc = "non_unique_from"
    /\ LET it == TransformList(args.nu_from)
           r == ListFromParserIter(it, "--non-unique-from") IN
       /\ expanded' = expanded \o it.calls
       /\ opened' = opened \o Opens(args.nu_from)
       /\ IF r.kind = "return"
          THEN /\ args' = [args EXCEPT !.non_unique_from = r.value,
                                       !.transform = InsertAtFront(@, r.value)]
               /\ pc' = "check_book"
               /\ UNCHANGED outcome
          ELSE /\ ParserError(r.argument, r.error, {})
               /\ UNCHANGED args
    /\ UNCHANGED <<argv, i, chain, runner, events>>

\* Lines 107-108.
NonUniqueFrom ==
    /\ pc = "non_unique_from"
    /\ LET it == TransformList(args.nu_from)
           r == ListFromParserIter(it, "--non-unique-from") IN
       /\ expanded' = expanded \o it.calls
       /\ opened' = opened \o Opens(args.nu_from)
       /\ IF r.kind = "return"
          THEN /\ args' = [args EXCEPT !.non_unique_from = r.value]
               /\ pc' = "check_book"
               /\ UNCHANGED outcome
          ELSE /\ IF r.kind = "parser.error"
                  THEN ParserError(r.argument, r.error, {})
                  ELSE Raise(r.argument, r.error)
               /\ UNCHANGED args
    /\ UNCHANGED <<argv, i, chain, runner, events>>

\* The names of all transforms, whether or not they use a sheet.
NeedBook_AllNames(transforms) == {transforms[k].name : k \in DOMAIN transforms}

\* set(tf.name for tf in args.transform if tf.uses_sheet())
NeedBook(transforms) ==
    {transforms[k].name : k \in {j \in DOMAIN transforms : transforms[j].uses_sheet}}

\* Lines 110-113.
CheckBook ==
    /\ pc = "check_book"
    /\ IF ~Truthy(args.book) /\ NeedBook(args.transform) # {}
       THEN ParserError("--book", "required", NeedBook(args.transform))
       ELSE pc' = "check_purge" /\ UNCHANGED outcome
    /\ UNCHANGED <<argv, args, i, chain, expanded, opened, runner, events>>

\* Lines 114-115.
CheckPurge ==
    /\ pc = "check_purge"
    /\ IF args.purge_except = NoneStr
       THEN ParserError("--purge-except", "must be one of", {})
       ELSE pc' = "default_model" /\ UNCHANGED outcome
    /\ UNCHANGED <<argv, args, i, chain, expanded, opened, runner, events>>

\* Lines 116-118.
ReturnArgs ==
    /\ pc = "default_model"
    /\ args' = IF args.model_out # None /\ args.model = None
               THEN [args EXCEPT !.model = DefaultModel]
               ELSE args
    /\ pc' = "from_args"
    /\ UNCHANGED <<argv, i, chain, expanded, opened, runner, events, outcome>>

\* ------------------------------------------------------------ main, Runner

\* main returns 0.
Return ==
    /\ outcome' = Ended("return", "", NoExc, {})
    /\ pc' = "done"

\* run.Runner.from_args(args), line 140: the graph is loaded from args.model
\* when there is one, and the load may fail.
FromArgs ==
    /\ pc = "from_args"
    /\ \E ok \in BOOLEAN :
         IF ok
         THEN /\ runner' = [verbose |-> args.verbose,
                            graph |-> IF args.model = None THEN <<>>
                                      ELSE <<<<"model", args.model>>>>,
                            non_uniques |-> <<>>]
              /\ pc' = "add_graph"
              /\ UNCHANGED outcome
         ELSE /\ Raise("Runner.from_args", "OSError")
              /\ UNCHANGED runner
    /\ UNCHANGED <<argv, args, i, chain, expanded, opened, events>>

\* The graph files parsed before the first one that fails.
RECURSIVE ParsedPrefix(_)
ParsedPrefix(paths) ==
    IF paths = <<>> \/ ~GraphParses(Head(paths)) THEN <<>>
    ELSE <<Head(paths)>> \o ParsedPrefix(Tail(paths))

ParseEvents(paths) == [k \in DOMAIN paths |-> <<"graph.parse", paths[k]>>]

\* Lines 122-125: every --add-graph file is parsed into the graph in order,
\* then the terms are set from the whole graph.
IngestGraphs ==
    /\ pc = "add_graph"
    /\ LET done == ParsedPrefix(args.add_graph) IN
       IF args.add_graph = <<>>
       THEN /\ pc' = "non_uniques"
            /\ UNCHANGED <<runner, events, outcome>>
       ELSE IF Len(done) < Len(args.add_graph)
       THEN /\ events' = events \o ParseEvents(SubSeq(args.add_graph, 1, Len(done) + 1))
            /\ runner' = [runner EXCEPT !.graph = @ \o ParseEvents(done)]
            /\ Raise("graph.parse", "ValueError")
       ELSE /\ events' = events \o ParseEvents(done) \o << <<"set_terms">> >>
            /\ runner' = [runner EXCEPT !.graph = @ \o ParseEvents(done)]
            /\ pc' = "non_uniques"
            /\ UNCHANGED outcome
    /\ UNCHANGED <<argv, args, i, chain, expanded, opened>>

\* Lines 127-128.
UseNonUniques ==
    /\ pc = "non_uniques"
    /\ IF args.non_unique_from = <<>>
       THEN /\ pc' = "run"
            /\ UNCHANGED <<runner, events, outcome>>
       ELSE /\ events' = Append(events, <<"use_non_uniques", args.non_unique_from>>)
            /\ \E ok \in BOOLEAN :
                 IF ok
                 THEN /\ runner' = [runner EXCEPT !.non_uniques = args.non_unique_from]
                      /\ pc' = "run"
                      /\ UNCHANGED outcome
                 ELSE /\ Raise("use_non_uniques", "ValueError")
                      /\ UNCHANGED runner
    /\ UNCHANGED <<argv, args, i, chain, expanded, opened>>

RanEvents(transforms) == [k \in DOMAIN transforms |-> <<"transform", transforms[k].name>>]

\* Lines 129-132 with the save reached whether or not runner.run returned.
RunTransforms_SavesAnyway ==
    /\ pc = "run"
    /\ args.add_graph # <<>> \/ args.transform # <<>>
    /\ \E n \in 0..Len(args.transform) :
         /\ events' = Append(events, <<"run", args.transform, n>>)
         /\ runner' = [runner EXCEPT !.graph =
                          @ \o RanEvents(SubSeq(args.transform, 1, n))]
         /\ IF args.model_out # None
            THEN pc' = "save_model" /\ UNCHANGED outcome
            ELSE IF n < Len(args.transform)
            THEN Raise(args.transform[n + 1].name, "ExecutionError")
            ELSE Return
    /\ UNCHANGED <<argv, args, i, chain, expanded, opened>>

\* Lines 129-130, the branch taken with a graph to add or a transform to
\* run: runner.run executes the list in order and stops at the first
\* transform that raises; n transforms complete.  On return, lines 131-132
\* choose between saving and finishing.
RunTransforms ==
    /\ pc = "run"
    /\ args.add_graph # <<>> \/ args.transform # <<>>
    /\ \E n \in 0..Len(args.transform) :
         /\ events' = Append(events, <<"run", args.transform, n>>)
         /\ runner' = [runner EXCEPT !.graph =
                          @ \o RanEvents(SubSeq(args.transform, 1, n))]
         /\ IF n < Len(args.transform)
            THEN Raise(args.transform[n + 1].name, "ExecutionError")
            ELSE IF args.model_out # None
            THEN pc' = "save_model" /\ UNCHANGED outcome
            ELSE Return
    /\ UNCHANGED <<argv, args, i, chain, expanded, opened>>

\* Lines 129 and 133, the branch taken with neither.
NoMutation ==
    /\ pc = "run"
    /\ ~(args.add_graph # <<>> \/ args.transform # <<>>)
    /\ IF runner.verbose
       THEN pc' = "show_graph" /\ UNCHANGED outcome
       ELSE Return
    /\ UNCHANGED <<argv, args, i, chain, expanded, opened, runner, events>>

\* Line 132: runner.save_model(args.model_out), which may fail.
SaveModel ==
    /\ pc = "save_model"
    /\ events' = Append(events, <<"save_model", args.model_out, runner.graph>>)
    /\ \E ok \in BOOLEAN :
         IF ok THEN Return ELSE Raise("save_model", "OSError")
    /\ UNCHANGED <<argv, args, i, chain, expanded, opened, runner>>

\* Line 134: run.show_graph(runner.graph).
ShowGraph ==
    /\ pc = "show_graph"
    /\ events' = Append(events, <<"show_graph", runner.graph>>)
    /\ Return
    /\ UNCHANGED <<argv, args, i, chain, expanded, opened, runner>>

Next ==
    \/ ArgparseParse
    \/ ExpandPositional
    \/ AssignTransform
    \/ FromList
    \/ NonUniqueFrom
    \/ CheckBook
    \/ CheckPurge
    \/ ReturnArgs
    \/ FromArgs
    \/ IngestGraphs
    \/ UseNonUniques
    \/ RunTransforms
    \/ NoMutation
    \/ SaveModel
    \/ ShowGraph

Spec == Init /\ [][Next]_vars

\* ------------------------------------------------------------- properties

\* What the command line asks for, read off argv alone.

RECURSIVE ConcatExpansions(_, _)
ConcatExpansions(names, base) ==
    IF names = <<>> THEN <<>>
    ELSE IterFromName(Head(names), base).yields \o ConcatExpansions(Tail(names), base)

Expands(name, base) == IterFromName(name, base).raises = NoExc

ListLines(path) == IF path = None THEN <<>> ELSE ReadLines(path).lines

ListOK(path) ==
    \/ path = None
    \/ /\ ReadLines(path).raises = NoExc
       /\ \A k \in DOMAIN ListLines(path) : Expands(ListLines(path)[k], Dirname(path))

BooksOK == argv.book.none \/ ExtendBooks(argv.book.list).raises = NoExc

PositionalOK == \A k \in DOMAIN argv.transform : Expands(argv.transform[k], None)

\* The index of the first positional name whose expansion fails, 0 if none.
FirstFailing ==
    LET bad == {k \in DOMAIN argv.transform : ~Expands(argv.transform[k], None)} IN
    IF bad = {} THEN 0 ELSE CHOOSE k \in bad : \A j \in bad : k <= j

\* expand(L1) ++ ... ++ expand(Ln) ++ expand(P1) ++ ... ++ expand(Pm)
ExpectedOrder ==
    ConcatExpansions(ListLines(argv.from_list), Dirname(argv.from_list))
        \o ConcatExpansions(argv.transform, None)

EventsOf(kind) == {k \in DOMAIN events : events[k][1] = kind}

\* C1: once the positional names and the --from-list file have all been
\* expanded without error, args.transform is the expansions of the list
\* file's lines in file order followed by the expansions of the positional
\* names in the given order, nothing dropped, duplicated or reordered.
C1_ResolvedOrder ==
    (/\ BooksOK /\ PositionalOK /\ ListOK(argv.from_list)
     /\ pc \notin {"argparse", "positional", "from_list"})
    => args.transform = ExpectedOrder

C1_Witness ==
    /\ pc = "done"
    /\ argv.from_list = <<"lst", "ok.txt">>
    /\ argv.transform = <<"s", "a">>
    /\ args.transform = ExpectedOrder
    /\ Len(args.transform) = 5

\* C2: when the k-th positional name is the first whose expansion fails,
\* only the first k names are ever expanded, no list file is ever opened,
\* and resolution ends in parser.error naming the k-th name.
C2_StopsAtFirstFailure ==
    (BooksOK /\ FirstFailing > 0 /\ pc # "argparse")
    => /\ Len(expanded) <= FirstFailing
       /\ expanded = SubSeq(argv.transform, 1, Len(expanded))
       /\ opened = <<>>
       /\ pc \in {"positional", "exit"}
       /\ pc = "exit" =>
            /\ Len(expanded) = FirstFailing
            /\ outcome.kind = "parser.error"
            /\ outcome.argument = argv.transform[FirstFailing]

C2_Witness ==
    /\ pc = "exit"
    /\ Len(argv.transform) = 3
    /\ FirstFailing = 2
    /\ argv.from_list # None
    /\ argv.non_unique_from # None
    /\ expanded = SubSeq(argv.transform, 1, 2)
    /\ outcome.argument = "bad"

\* C3: an error raised while a --book value is expanded is reported by
\* parser.error against --book and never leaves parse_args as an exception.
C3_BookErrorReported ==
    (~BooksOK /\ pc # "argparse")
    => /\ outcome.kind = "parser.error"
       /\ outcome.argument = "--book"

\* C4: a run that ends without error with --model-out given has saved the
\* model to that path, also when there was no transform and no graph to add.
C4_OutputPersisted ==
    (pc = "done" /\ args.model_out # None)
    => \E k \in EventsOf("save_model") : events[k][2] = args.model_out

\* C5: save_model is called only directly after runner.run has returned
\* normally for the whole of args.transform; a run ended by parser.error or
\* by an exception of graph ingestion, non-unique seeding or a transform
\* has not called save_model.
C5_SaveOnlyAfterFullRun ==
    /\ \A k \in EventsOf("save_model") :
         /\ k > 1
         /\ events[k - 1][1] = "run"
         /\ events[k - 1][2] = args.transform
         /\ events[k - 1][3] = Len(args.transform)
    /\ (pc \in {"exit", "raised"} /\ outcome.argument # "save_model")
         => EventsOf("save_model") = {}

C5_Witness ==
    /\ pc = "raised"
    /\ args.model_out # None
    /\ \E k \in EventsOf("run") :
         /\ events[k][3] >= 1
         /\ events[k][3] < Len(events[k][2])
    /\ EventsOf("save_model") = {}

\* C6: with no --book on the command line and steps 1-3 passed, resolution
\* ends in the "require --book" error naming exactly the sheet-using
\* transforms of the execution list (list file plus positional, not the
\* --non-unique-from list) when there is one, and does not fail on this
\* rule when there is none.
C6_MissingBookRule ==
    (/\ argv.book.none /\ PositionalOK
     /\ ListOK(argv.from_list) /\ ListOK(argv.non_unique_from)
     /\ pc \notin {"argparse", "positional", "from_list", "non_unique_from",
                   "check_book"})
    => LET need == {ExpectedOrder[k].name :
                      k \in {j \in DOMAIN ExpectedOrder : ExpectedOrder[j].uses_sheet}} IN
       IF need # {}
       THEN /\ pc = "exit"
            /\ outcome = Ended("parser.error", "--book", "required", need)
       ELSE ~(outcome.kind = "parser.error" /\ outcome.argument = "--book")

C6_Witness ==
    /\ pc = "exit"
    /\ argv.book.none
    /\ argv.transform = <<"a", "s">>
    /\ argv.non_unique_from = <<"lst", "ok.txt">>
    /\ outcome = Ended("parser.error", "--book", "required", {"s"})

\* C7: a --book path that is neither a directory nor a regular file (a
\* special file, or missing) makes BookLocator fail with an I/O error; the
\* expansion never completes normally for it.
C7_NonFilePathFails ==
    \A k \in DOMAIN argv.book.list :
        (/\ Stat(argv.book.list[k]) \notin {"dir", "reg"}
         /\ \A j \in 1..(k - 1) : Stat(argv.book.list[j]) \in {"dir", "reg"}
         /\ pc # "argparse")
        => /\ pc \in {"exit", "raised"}
           /\ outcome.argument = "--book"
           /\ outcome.error = "OSError"

\* C8: the graph is printed exactly when no output path was requested,
\* verbose is set and neither --add-graph nor a transform was given.
C8_PrintOnlyWithoutOutput ==
    LET otherwise == /\ args.model_out = None
                     /\ args.verbose
                     /\ args.add_graph = <<>>
                     /\ args.transform = <<>> IN
    /\ EventsOf("show_graph") # {} => otherwise
    /\ (pc = "done" /\ otherwise) => EventsOf("show_graph") # {}

\* C9: use_non_uniques is called at most once; a call of runner.run with a
\* non-empty non-unique list follows exactly one call of use_non_uniques
\* with that list, which itself follows every graph.parse and set_terms;
\* the list passed to runner.run is the execution list only, none of the
\* --non-unique-from transforms added.
C9_SeedingBeforeRun ==
    /\ Cardinality(EventsOf("use_non_uniques")) <= 1
    /\ \A r \in EventsOf("run") :
         /\ events[r][2] = ExpectedOrder
         /\ args.non_unique_from # <<>> =>
              \E u \in EventsOf("use_non_uniques") :
                  /\ u < r
                  /\ events[u][2] = ConcatExpansions(ListLines(argv.non_unique_from),
                                                     Dirname(argv.non_unique_from))
                  /\ \A g \in EventsOf("graph.parse") \cup EventsOf("set_terms") : g < u
    /\ (pc = "done" /\ args.non_unique_from # <<>>)
         => Cardinality(EventsOf("use_non_uniques")) = 1

C9_Witness ==
    /\ pc = "done"
    /\ argv.non_unique_from = <<"lst", "ok.txt">>
    /\ argv.add_graph = <<"g.ttl">>
    /\ argv.transform = <<"a">>
    /\ \E r \in EventsOf("run") : events[r][3] = 1
    /\ Cardinality(EventsOf("use_non_uniques")) = 1

\* C10: when --book was given and its expansion succeeded, resolution never
\* ends in the "require --book" error, even if no book path was found.
C10_SuppliedBookSuffices ==
    (~argv.book.none /\ BooksOK)
    => ~(outcome.kind = "parser.error" /\ outcome.error = "required")

====
